---- MODULE Spec2Model ----
(***************************************************************************)
(* A model of struct-validator (validator.go): Validate walks the fields   *)
(* of a struct, resolves each field's validation from its tags and the     *)
(* ValidationOptions, and evaluates the field's value with validateValue.  *)
(*                                                                         *)
(* Go strings are sequences of one-character strings, so that the lexical  *)
(* operations of the code (SplitN, HasPrefix, HasSuffix, Replace, Atoi,    *)
(* regexp matching) are computed character by character.  Go's field       *)
(* index j is 0-based; the model's is 1-based.                             *)
(***************************************************************************)
EXTENDS Integers, Sequences, FiniteSets, TLC

VARIABLES
    obj,            \* the struct passed to Validate: a sequence of fields
    options,        \* the *ValidationOptions passed to Validate
    j,              \* Validate's loop index over the fields
    invalidFields,  \* Validate's map of failed fields: name -> Fail* code
    valid,          \* Validate's overall result
    pc,             \* "loop" (in the for loop), "done" (returned), "panic"
    evaluated       \* history: names of the fields validateValue was called on

vars == <<obj, options, j, invalidFields, valid, pc, evaluated>>

----------------------------------------------------------------------------
(* Bounds of the model. *)

\* Longest string value of a field.
MaxLen == 3
\* Integer field values range over -MaxVal..MaxVal.
MaxVal == 2
\* valmin/valmax literals in declarations range over -MaxBound..MaxBound.
MaxBound == 1
\* lenmin/lenmax literals in declarations range over 0..MaxLenBound.
MaxLenBound == 2

----------------------------------------------------------------------------
(* Program constants: validator.go lines 20-33. *)

ValMinNotNil == 2
ValMaxNotNil == 4
Required == 8
Email == 16

FailLenMin == 2
FailLenMax == 4
FailValMin == 8
FailValMax == 16
FailEmpty == 32
FailRegexp == 64
FailEmail == 128
FailZero == 256

----------------------------------------------------------------------------
(* String literals of the program, as character sequences. *)

s_validation == <<"v","a","l","i","d","a","t","i","o","n">>
s_regexpSuffix == <<"_","r","e","g","e","x","p">>
s_req == <<"r","e","q">>
s_email == <<"e","m","a","i","l">>
s_lenmin == <<"l","e","n","m","i","n">>
s_lenmax == <<"l","e","n","m","a","x">>
s_valmin == <<"v","a","l","m","i","n">>
s_valmax == <<"v","a","l","m","a","x">>
s_regexp == <<"r","e","g","e","x","p">>
s_Email == <<"E","m","a","i","l">>
s_Price == <<"P","r","i","c","e">>
s_string == <<"s","t","r","i","n","g">>
s_int == <<"i","n","t">>

valOpts == <<s_lenmin, s_lenmax, s_valmin, s_valmax, s_regexp>>

----------------------------------------------------------------------------
(* The Go library functions the code calls, computed on character          *)
(* sequences.                                                              *)

Range(s) == {s[i] : i \in 1..Len(s)}

\* strings.HasPrefix
HasPrefix(s, prefix) ==
    /\ Len(prefix) <= Len(s)
    /\ SubSeq(s, 1, Len(prefix)) = prefix

\* strings.HasSuffix
HasSuffix(s, suffix) ==
    /\ Len(suffix) <= Len(s)
    /\ SubSeq(s, Len(s) - Len(suffix) + 1, Len(s)) = suffix

\* strings.SplitN(s, sep, -1) for a one-character separator: every
\* separator cuts, so "" yields one empty token and "a  b" an empty middle one.
RECURSIVE SplitFrom(_, _, _, _)
SplitFrom(s, sep, i, cur) ==
    IF i > Len(s) THEN <<cur>>
    ELSE IF s[i] = sep THEN <<cur>> \o SplitFrom(s, sep, i + 1, <<>>)
    ELSE SplitFrom(s, sep, i + 1, Append(cur, s[i]))

SplitN(s, sep) == SplitFrom(s, sep, 1, <<>>)

\* strings.Replace(s, old, "", 1) where old is a prefix of s (the code calls
\* it only under HasPrefix(s, old)): the first occurrence is the prefix.
ReplacePrefix(s, old) == SubSeq(s, Len(old) + 1, Len(s))

DigitChars == <<"0","1","2","3","4","5","6","7","8","9">>

IsDigit(c) == c \in Range(DigitChars)

DigitVal(c) == (CHOOSE i \in 1..10 : DigitChars[i] = c) - 1

RECURSIVE DigitsVal(_, _)
DigitsVal(ds, acc) ==
    IF ds = <<>> THEN acc
    ELSE DigitsVal(Tail(ds), acc * 10 + DigitVal(Head(ds)))

\* strconv.Atoi: an optional sign, then one or more decimal digits; anything
\* else is an error.  (Literals are short: no overflow of int.)
Atoi(val) ==
    LET signed == val # <<>> /\ Head(val) \in {"-", "+"}
        ds == IF signed THEN Tail(val) ELSE val
        ok == ds # <<>> /\ \A i \in 1..Len(ds) : IsDigit(ds[i])
    IN  [err |-> ~ok,
         i |-> IF ~ok THEN 0
               ELSE IF signed /\ Head(val) = "-" THEN 0 - DigitsVal(ds, 0)
               ELSE DigitsVal(ds, 0)]

\* regexp.MustCompile panics on a malformed pattern.  Patterns of the model
\* are written with literal characters, ".", "^", "$" and "(": a pattern
\* with "(" has no closing parenthesis and does not compile.
CompilePanics(pattern) == "(" \in Range(pattern)

\* (*Regexp).MatchString: an unanchored search; "^" and "$" anchor it at the
\* ends of the text, "." matches any character.
MatchString(pattern, s) ==
    LET atStart == pattern # <<>> /\ Head(pattern) = "^"
        p1 == IF atStart THEN Tail(pattern) ELSE pattern
        atEnd == p1 # <<>> /\ p1[Len(p1)] = "$"
        body == IF atEnd THEN SubSeq(p1, 1, Len(p1) - 1) ELSE p1
    IN  \E i \in 1..(Len(s) + 1) :
            /\ i + Len(body) - 1 <= Len(s)
            /\ \A k \in 1..Len(body) : body[k] = "." \/ body[k] = s[i + k - 1]
            /\ atStart => i = 1
            /\ atEnd => i + Len(body) - 1 = Len(s)

\* Character classes of emailRegex (validator.go line 163), cut to the
\* characters string values are made of.
AlnumChars == {"a", "b", "0", "1"}
LocalChars == AlnumChars \cup {".", "-", "_", "+"}

\* One domain label: [a-zA-Z0-9](?:[a-zA-Z0-9-]{0,61}[a-zA-Z0-9])?
IsLabel(l) ==
    /\ Len(l) >= 1
    /\ Len(l) <= 63
    /\ l[1] \in AlnumChars
    /\ l[Len(l)] \in AlnumChars
    /\ \A k \in 1..Len(l) : l[k] \in AlnumChars \cup {"-"}

\* emailRegex.MatchString: ^local+@label(\.label)*$
EmailMatch(s) ==
    \E at \in 1..Len(s) :
        /\ s[at] = "@"
        /\ at > 1
        /\ \A k \in 1..(at - 1) : s[k] \in LocalChars
        /\ LET labels == SplitN(SubSeq(s, at + 1, Len(s)), ".")
           IN  \A k \in 1..Len(labels) : IsLabel(labels[k])

----------------------------------------------------------------------------
(* FieldValidation and its flags: validator.go lines 10-17.  regexp is a   *)
(* compiled pattern or nil; panicked records that a regexp.MustCompile on  *)
(* the way to this value panicked.                                         *)

HasFlag(flags, bit) == (flags \div bit) % 2 = 1

SetFlag(flags, bit) == IF HasFlag(flags, bit) THEN flags ELSE flags + bit

NilRegexp == [isNil |-> TRUE, pattern |-> <<>>]

Compiled(pattern) == [isNil |-> FALSE, pattern |-> pattern]

\* FieldValidation{} with lenMin and lenMax set to -1 (lines 79-81).
NewValidation ==
    [lenMin |-> -1, lenMax |-> -1, valMin |-> 0, valMax |-> 0,
     regexp |-> NilRegexp, flags |-> 0, panicked |-> FALSE]

----------------------------------------------------------------------------
(* setValidationFromTag: validator.go lines 182-222. *)

\* One pass of the inner loop (lines 191-220): opt against one valOpt.
ApplyValOpt(v, opt, valOpt) ==
    LET prefix == Append(valOpt, ":")
        val == ReplacePrefix(opt, prefix)
        a == Atoi(val)
    IN  IF v.panicked \/ ~HasPrefix(opt, prefix) THEN v
        ELSE IF valOpt = s_regexp
             THEN IF CompilePanics(val) THEN [v EXCEPT !.panicked = TRUE]
                  ELSE [v EXCEPT !.regexp = Compiled(val)]
        ELSE IF a.err THEN v
        ELSE IF valOpt = s_lenmin THEN [v EXCEPT !.lenMin = a.i]
        ELSE IF valOpt = s_lenmax THEN [v EXCEPT !.lenMax = a.i]
        ELSE IF valOpt = s_valmin
             THEN [v EXCEPT !.valMin = a.i,
                            !.flags = IF a.i = 0 THEN SetFlag(@, ValMinNotNil) ELSE @]
        ELSE IF valOpt = s_valmax
             THEN [v EXCEPT !.valMax = a.i,
                            !.flags = IF a.i = 0 THEN SetFlag(@, ValMaxNotNil) ELSE @]
        ELSE v

RECURSIVE ApplyValOpts(_, _, _)
ApplyValOpts(v, opt, k) ==
    IF k > Len(valOpts) THEN v
    ELSE ApplyValOpts(ApplyValOpt(v, opt, valOpts[k]), opt, k + 1)

\* The body of the outer loop (lines 185-220) for one token.
ApplyOpt(v, opt) ==
    LET v1 == IF opt = s_req THEN [v EXCEPT !.flags = SetFlag(@, Required)] ELSE v
        v2 == IF opt = s_email THEN [v1 EXCEPT !.flags = SetFlag(@, Email)] ELSE v1
    IN  ApplyValOpts(v2, opt, 1)

RECURSIVE ApplyOpts(_, _, _)
ApplyOpts(v, opts, k) ==
    IF k > Len(opts) \/ v.panicked THEN v
    ELSE ApplyOpts(ApplyOpt(v, opts[k]), opts, k + 1)

setValidationFromTag(v, tag) == ApplyOpts(v, SplitN(tag, " "), 1)

----------------------------------------------------------------------------
(* validateValue: validator.go lines 129-180.  value is a reflect.Value:   *)
(* its type (kind and name) with its string or integer content.            *)

validateValue(value, validation) ==
    LET minCanBeZero == HasFlag(validation.flags, ValMinNotNil)
        maxCanBeZero == HasFlag(validation.flags, ValMaxNotNil)
        typeName == value.Type.Name
        isString == typeName = s_string
        isInt == HasPrefix(typeName, s_int)
    IN  IF /\ HasFlag(validation.flags, Required)
           /\ isString
           /\ value.s = <<>>
        THEN [valid |-> FALSE, flags |-> FailEmpty]
        ELSE IF /\ HasFlag(validation.flags, Required)
                /\ isInt
                /\ value.n = 0
                /\ ~minCanBeZero
                /\ ~maxCanBeZero
                /\ validation.valMin = 0
                /\ validation.valMax = 0
        THEN [valid |-> FALSE, flags |-> FailZero]
        ELSE IF isString /\ validation.lenMin > 0 /\ Len(value.s) < validation.lenMin
        THEN [valid |-> FALSE, flags |-> FailLenMin]
        ELSE IF isString /\ validation.lenMax > 0 /\ Len(value.s) > validation.lenMax
        THEN [valid |-> FALSE, flags |-> FailLenMax]
        ELSE IF /\ isString
                /\ ~validation.regexp.isNil
                /\ ~MatchString(validation.regexp.pattern, value.s)
        THEN [valid |-> FALSE, flags |-> FailRegexp]
        ELSE IF isString /\ HasFlag(validation.flags, Email) /\ ~EmailMatch(value.s)
        THEN [valid |-> FALSE, flags |-> FailEmail]
        ELSE IF /\ isInt
                /\ (validation.valMin # 0 \/ minCanBeZero)
                /\ validation.valMin > value.n
        THEN [valid |-> FALSE, flags |-> FailValMin]
        ELSE IF /\ isInt
                /\ (validation.valMax # 0 \/ maxCanBeZero)
                /\ validation.valMax < value.n
        THEN [valid |-> FALSE, flags |-> FailValMax]
        ELSE [valid |-> TRUE, flags |-> 0]

----------------------------------------------------------------------------
(* Validate: validator.go lines 52-127.                                    *)
(*                                                                         *)
(* A field is [Name, Type, Tag, s, n]: Type is [Kind, Name]; Tag maps tag  *)
(* keys to tag strings; s and n are the stored string or integer.  A Go    *)
(* map is a function; reading an absent key gives the zero value.          *)

MapGet(m, k, zero) == IF k \in DOMAIN m THEN m[k] ELSE zero

MapLen(m) == Cardinality(DOMAIN m)

EmptyMap == [k \in {} |-> 0]

MapSet(m, k, x) == [i \in DOMAIN m \cup {k} |-> IF i = k THEN x ELSE m[i]]

isNotInt(k) ==
    k \in {"Int64", "Int32", "Int16", "Int8", "Int",
           "Uint64", "Uint32", "Uint16", "Uint8", "Uint"}

isNotString(k) == k = "String"

isKeyInMap(k, m) == \E key \in DOMAIN m : key = k

\* Lines 57-60.
TagName(opts) ==
    IF ~opts.isNil /\ opts.OverwriteTagName # <<>> THEN opts.OverwriteTagName
    ELSE s_validation

\* Restricted with a slip: any entry of RestrictFields selects its field,
\* whatever it maps to.
Restricted_ByKey(field, opts) ==
    /\ ~opts.isNil
    /\ MapLen(opts.RestrictFields) > 0
    /\ field.Name \notin DOMAIN opts.RestrictFields

\* Line 70: the field is left out by RestrictFields.
Restricted(field, opts) ==
    /\ ~opts.isNil
    /\ MapLen(opts.RestrictFields) > 0
    /\ ~MapGet(opts.RestrictFields, field.Name, FALSE)

\* Line 75: the field's kind is validated at all.
TypeSkipped(field) == ~isNotInt(field.Type.Kind) /\ ~isNotString(field.Type.Kind)

\* ResolveTags with a slip: the regexp tag is overwritten only where the
\* declaration is overwritten too.
ResolveTags_RegexpUnderPrimary(field, opts) ==
    LET tagName == TagName(opts)
        regexpName == tagName \o s_regexpSuffix
        tagVal == MapGet(field.Tag, tagName, <<>>)
        tagRegexpVal == MapGet(field.Tag, regexpName, <<>>)
        over == IF opts.isNil THEN EmptyMap
                ELSE MapGet(opts.OverwriteFieldTags, field.Name, EmptyMap)
        use == /\ ~opts.isNil
               /\ MapLen(opts.OverwriteFieldTags) > 0
               /\ MapLen(over) > 0
               /\ MapGet(over, tagName, <<>>) # <<>>
    IN  [tagVal |-> IF use THEN MapGet(over, tagName, <<>>) ELSE tagVal,
         tagRegexpVal |-> IF use /\ MapGet(over, regexpName, <<>>) # <<>>
                          THEN MapGet(over, regexpName, <<>>) ELSE tagRegexpVal]

\* Lines 83-95: the tag strings, the field's own or overwritten.
ResolveTags(field, opts) ==
    LET tagName == TagName(opts)
        regexpName == tagName \o s_regexpSuffix
        tagVal == MapGet(field.Tag, tagName, <<>>)
        tagRegexpVal == MapGet(field.Tag, regexpName, <<>>)
        over == IF opts.isNil THEN EmptyMap
                ELSE MapGet(opts.OverwriteFieldTags, field.Name, EmptyMap)
        use == ~opts.isNil /\ MapLen(opts.OverwriteFieldTags) > 0 /\ MapLen(over) > 0
    IN  [tagVal |-> IF use /\ MapGet(over, tagName, <<>>) # <<>>
                    THEN MapGet(over, tagName, <<>>) ELSE tagVal,
         tagRegexpVal |-> IF use /\ MapGet(over, regexpName, <<>>) # <<>>
                          THEN MapGet(over, regexpName, <<>>) ELSE tagRegexpVal]

\* BuildValidation with a slip: a regexp tag that does not compile is
\* dropped instead of panicking.
BuildValidation_DropsBadRegexpTag(tags) ==
    LET v == setValidationFromTag(NewValidation, tags.tagVal)
    IN  IF v.panicked \/ tags.tagRegexpVal = <<>> THEN v
        ELSE IF CompilePanics(tags.tagRegexpVal) THEN v
        ELSE [v EXCEPT !.regexp = Compiled(tags.tagRegexpVal)]

\* Lines 97-100: parse the tag, then compile the regexp tag when there is one.
BuildValidation(tags) ==
    LET v == setValidationFromTag(NewValidation, tags.tagVal)
    IN  IF v.panicked \/ tags.tagRegexpVal = <<>> THEN v
        ELSE IF CompilePanics(tags.tagRegexpVal) THEN [v EXCEPT !.panicked = TRUE]
        ELSE [v EXCEPT !.regexp = Compiled(tags.tagRegexpVal)]

\* ApplySuffix with a slip: a "Price" field gets the implicit valmin:0
\* whatever bounds it declares.
ApplySuffix_IgnoringDeclaredBounds(v, field, opts) ==
    IF opts.isNil \/ ~opts.ValidateWhenSuffix THEN v
    ELSE LET v1 == IF HasSuffix(field.Name, s_Email)
                   THEN [v EXCEPT !.flags = SetFlag(@, Email)] ELSE v
         IN  IF HasSuffix(field.Name, s_Price)
             THEN [v1 EXCEPT !.valMin = 0, !.flags = SetFlag(@, ValMinNotNil)]
             ELSE v1

\* Lines 102-110: validation by the field's name.
ApplySuffix(v, field, opts) ==
    IF opts.isNil \/ ~opts.ValidateWhenSuffix THEN v
    ELSE LET v1 == IF HasSuffix(field.Name, s_Email)
                   THEN [v EXCEPT !.flags = SetFlag(@, Email)] ELSE v
         IN  IF /\ HasSuffix(field.Name, s_Price)
                /\ v1.valMin = 0
                /\ v1.valMax = 0
                /\ ~HasFlag(v1.flags, ValMinNotNil)
                /\ ~HasFlag(v1.flags, ValMaxNotNil)
             THEN [v1 EXCEPT !.valMin = 0, !.flags = SetFlag(@, ValMinNotNil)]
             ELSE v1

\* FieldValue with a slip: the stored value is validated even when
\* OverwriteFieldValues names the field.
FieldValue_Stored(field, opts) == [Type |-> field.Type, s |-> field.s, n |-> field.n]

\* Lines 112-117: the value that is validated.
FieldValue(field, opts) ==
    IF /\ ~opts.isNil
       /\ MapLen(opts.OverwriteFieldValues) > 0
       /\ isKeyInMap(field.Name, opts.OverwriteFieldValues)
    THEN opts.OverwriteFieldValues[field.Name]
    ELSE [Type |-> field.Type, s |-> field.s, n |-> field.n]

\* One pass of the loop body (lines 66-123) for one field: "continue" (the
\* field is left out), "panic" (a MustCompile panicked) or "validated" with
\* validateValue's result.
FieldStep(field, opts) ==
    IF Restricted(field, opts) \/ TypeSkipped(field)
    THEN [step |-> "continue", valid |-> TRUE, flags |-> 0]
    ELSE LET built == BuildValidation(ResolveTags(field, opts))
             r == validateValue(FieldValue(field, opts), ApplySuffix(built, field, opts))
         IN  IF built.panicked THEN [step |-> "panic", valid |-> TRUE, flags |-> 0]
             ELSE [step |-> "validated", valid |-> r.valid, flags |-> r.flags]

\* One iteration of the for loop (lines 65-124).
Iterate ==
    /\ pc = "loop"
    /\ j <= Len(obj)
    /\ LET field == obj[j]
           r == FieldStep(field, options)
       IN  /\ pc' = IF r.step = "panic" THEN "panic" ELSE "loop"
           /\ j' = IF r.step = "panic" THEN j ELSE j + 1
           /\ valid' = IF r.step = "validated" /\ ~r.valid THEN FALSE ELSE valid
           /\ invalidFields' = IF r.step = "validated" /\ ~r.valid
                               THEN MapSet(invalidFields, field.Name, r.flags)
                               ELSE invalidFields
           /\ evaluated' = IF r.step = "validated"
                           THEN evaluated \cup {field.Name} ELSE evaluated
    /\ UNCHANGED <<obj, options>>

\* Line 126: return valid, invalidFields.
Return ==
    /\ pc = "loop"
    /\ j > Len(obj)
    /\ pc' = "done"
    /\ UNCHANGED <<obj, options, j, invalidFields, valid, evaluated>>

Next == Iterate \/ Return

----------------------------------------------------------------------------
(* Inputs: declarations.  A declaration is described by what it declares   *)
(* and rendered to the tag string the program parses.                      *)

NoInt == [set |-> FALSE, n |-> 0]

SomeInt(n) == [set |-> TRUE, n |-> n]

NoPattern == [set |-> FALSE, p |-> <<>>]

SomePattern(p) == [set |-> TRUE, p |-> p]

RECURSIVE NatDigits(_)
NatDigits(n) ==
    IF n < 10 THEN <<DigitChars[n + 1]>>
    ELSE Append(NatDigits(n \div 10), DigitChars[(n % 10) + 1])

\* The decimal literal of an integer.
Itoa(n) == IF n < 0 THEN <<"-">> \o NatDigits(0 - n) ELSE NatDigits(n)

Tok(key, val) == key \o <<":">> \o val

RECURSIVE Join(_)
Join(toks) ==
    IF toks = <<>> THEN <<>>
    ELSE IF Len(toks) = 1 THEN toks[1]
    ELSE toks[1] \o <<" ">> \o Join(Tail(toks))

Reverse(s) == [i \in 1..Len(s) |-> s[Len(s) + 1 - i]]

\* The tokens of a declaration, in the order of the README's examples.
DeclTokens(d) ==
    (IF d.req THEN <<s_req>> ELSE <<>>)
    \o (IF d.lenmin.set THEN <<Tok(s_lenmin, Itoa(d.lenmin.n))>> ELSE <<>>)
    \o (IF d.lenmax.set THEN <<Tok(s_lenmax, Itoa(d.lenmax.n))>> ELSE <<>>)
    \o (IF d.valmin.set THEN <<Tok(s_valmin, Itoa(d.valmin.n))>> ELSE <<>>)
    \o (IF d.valmax.set THEN <<Tok(s_valmax, Itoa(d.valmax.n))>> ELSE <<>>)
    \o (IF d.regexp.set THEN <<Tok(s_regexp, d.regexp.p)>> ELSE <<>>)
    \o (IF d.email THEN <<s_email>> ELSE <<>>)

\* The tag string of a declaration; rev writes the tokens in reverse order.
Render(d) == Join(IF d.rev THEN Reverse(DeclTokens(d)) ELSE DeclTokens(d))

LenLits == {NoInt} \cup {SomeInt(n) : n \in 0..MaxLenBound}

ValLits == {NoInt} \cup {SomeInt(n) : n \in (0 - MaxBound)..MaxBound}

p_startA == <<"^", "a">>
p_endA == <<"a", "$">>
p_bad == <<"(">>

\* Declarations of string constraints.
StringDecls ==
    [req : BOOLEAN, email : BOOLEAN, lenmin : {NoInt, SomeInt(0), SomeInt(MaxLenBound)},
     lenmax : LenLits, valmin : {NoInt}, valmax : {NoInt},
     regexp : {NoPattern, SomePattern(p_startA)}, rev : {FALSE}]

\* Declarations of integer constraints.
IntDecls ==
    [req : BOOLEAN, email : {FALSE}, lenmin : {NoInt}, lenmax : {NoInt},
     valmin : ValLits, valmax : ValLits, regexp : {NoPattern}, rev : BOOLEAN]

Decls == StringDecls \cup IntDecls

\* Each declaration with its tag string.
DeclTable == {<<d, Render(d)>> : d \in Decls}

StringTags == {Render(d) : d \in StringDecls}

IntTags == {Render(d) : d \in IntDecls}

\* Tag strings outside the table: empty tokens, unknown tokens, malformed
\* and signed integers, repeated tokens, a malformed pattern.
OddTags ==
    { Join(<<s_req, <<>>, Tok(s_valmin, <<"0">>)>>),
      Join(<<s_req, <<"x">>, Tok(s_lenmin, <<"1">>)>>),
      Join(<<s_req, Tok(s_valmin, <<"x">>)>>),
      Join(<<s_req, Tok(s_valmax, <<>>)>>),
      Join(<<Tok(s_valmin, <<"+", "1">>)>>),
      Join(<<s_req, Tok(s_valmin, <<"-", "0">>)>>),
      Join(<<Tok(s_valmin, <<"1">>), Tok(s_valmin, <<"0">>)>>),
      Join(<<Tok(s_valmax, <<"0">>), Tok(s_valmax, <<"1">>)>>),
      Join(<<Tok(s_lenmax, <<"1", "x">>), Tok(s_lenmin, <<"1">>)>>),
      Join(<<Tok(s_lenmin, <<"1">>), Tok(s_valmin, <<"1">>)>>),
      Join(<<s_req \o <<"x">>>>),
      Join(<<s_req, Tok(s_regexp, p_bad)>>) }

\* Values of a <key>_regexp tag: none, a pattern, a malformed pattern.
RegexpTags == {<<>>, p_endA, p_bad}

----------------------------------------------------------------------------
(* Inputs: types, values, fields and options. *)

T_string == [Kind |-> "String", Name |-> s_string]
T_int == [Kind |-> "Int", Name |-> s_int]
T_int64 == [Kind |-> "Int64", Name |-> s_int \o <<"6", "4">>]
T_uint == [Kind |-> "Uint", Name |-> <<"u">> \o s_int]
T_bool == [Kind |-> "Bool", Name |-> <<"b", "o", "o", "l">>]

SignedTypes == {T_int, T_int64}

IntTypes == SignedTypes \cup {T_uint}

StrAlphabet == {"a", "@", "."}

Strings == UNION {[1..n -> StrAlphabet] : n \in 0..MaxLen}

\* The integers a field of the type can hold.
IntsOf(type) == IF type = T_uint THEN 0..MaxVal ELSE (0 - MaxVal)..MaxVal

StringValue(s) == [Type |-> T_string, s |-> s, n |-> 0]

IntValue(type, n) == [Type |-> type, s |-> <<>>, n |-> n]

n_Name == <<"N", "a", "m", "e">>
n_Email == s_Email
n_Age == <<"A", "g", "e">>
n_Price == s_Price
n_Flag == <<"F", "l", "a", "g">>

s_mytag == <<"m", "y", "t", "a", "g">>

\* A struct tag with the declaration and the regexp pattern under the
\* default tag name.
TagOf(tag, regexpTag) ==
    [k \in {s_validation, s_validation \o s_regexpSuffix} |->
        IF k = s_validation THEN tag ELSE regexpTag]

NilOptions ==
    [isNil |-> TRUE, RestrictFields |-> EmptyMap, OverwriteFieldTags |-> EmptyMap,
     OverwriteTagName |-> <<>>, ValidateWhenSuffix |-> FALSE,
     OverwriteFieldValues |-> EmptyMap]

\* &ValidationOptions{}
ZeroOptions == [NilOptions EXCEPT !.isNil = FALSE]

SuffixOptions == [ZeroOptions EXCEPT !.ValidateWhenSuffix = TRUE]

StringFields ==
    {[Name |-> nm, Type |-> T_string, Tag |-> TagOf(t, r), s |-> s, n |-> 0] :
        nm \in {n_Name, n_Email}, t \in StringTags \cup OddTags,
        r \in RegexpTags, s \in Strings}

IntFields ==
    UNION {{[Name |-> nm, Type |-> ty, Tag |-> TagOf(t, <<>>), s |-> <<>>, n |-> n] :
                nm \in {n_Age, n_Price}, t \in IntTags \cup OddTags, n \in IntsOf(ty)} :
           ty \in IntTypes}

BoolFields ==
    {[Name |-> n_Flag, Type |-> T_bool, Tag |-> TagOf(s_req, <<>>), s |-> <<>>, n |-> 0]}

\* Validate has been entered (lines 53-63): nothing failed yet.
Entered ==
    /\ j = 1
    /\ invalidFields = EmptyMap
    /\ valid = TRUE
    /\ pc = "loop"
    /\ evaluated = {}

\* A struct of one field, every declaration and value, with no options or
\* with ValidateWhenSuffix.
InitField ==
    /\ obj \in {<<f>> : f \in StringFields \cup IntFields \cup BoolFields}
    /\ options \in {NilOptions, ZeroOptions, SuffixOptions}
    /\ Entered

SpecField == InitField /\ [][Next]_vars

----------------------------------------------------------------------------
(* What a finished call shows of a field, and what the field declared. *)

Done == pc = "done"

\* The failure code reported for field i; 0 when the field is not reported.
Reported(i) == MapGet(invalidFields, obj[i].Name, 0)

\* The declarations whose tag string is the given one.
DeclsOf(tag) == {e[1] : e \in {x \in DeclTable : x[2] = tag}}

DeclaredTag(f) == MapGet(f.Tag, s_validation, <<>>)

DeclaredRegexp(f) == MapGet(f.Tag, s_validation \o s_regexpSuffix, <<>>)

SuffixOn == ~options.isNil /\ options.ValidateWhenSuffix

\* The first violated check of a declaration d for field f, in the order
\* required, LenMin, LenMax, Regexp, Email, ValMin, ValMax; a declared
\* length or value bound is enforced whatever its value, zero included.
FirstViolated(f, d) ==
    LET pattern == IF DeclaredRegexp(f) # <<>> THEN SomePattern(DeclaredRegexp(f))
                   ELSE d.regexp
    IN  IF f.Type = T_string
        THEN IF d.req /\ f.s = <<>> THEN FailEmpty
             ELSE IF d.lenmin.set /\ Len(f.s) < d.lenmin.n THEN FailLenMin
             ELSE IF d.lenmax.set /\ Len(f.s) > d.lenmax.n THEN FailLenMax
             ELSE IF pattern.set /\ ~MatchString(pattern.p, f.s) THEN FailRegexp
             ELSE IF d.email /\ ~EmailMatch(f.s) THEN FailEmail
             ELSE 0
        ELSE IF d.req /\ f.n = 0 /\ ~d.valmin.set /\ ~d.valmax.set THEN FailZero
             ELSE IF d.valmin.set /\ f.n < d.valmin.n THEN FailValMin
             ELSE IF d.valmax.set /\ f.n > d.valmax.n THEN FailValMax
             ELSE 0

\* C1 holds of a field: it is reported with its first violated check, or
\* not reported when no check is violated.
FirstViolatedReported(f) ==
    \A d \in DeclsOf(DeclaredTag(f)) : Reported(1) = FirstViolated(f, d)

\* C1: for every string or integer value and every declaration, the field
\* is reported with exactly the first violated check in the fixed order
\* (evaluated without the naming rules, so the declaration is the whole
\* FieldSpec).
C1_FirstViolatedReported ==
    (Done /\ ~SuffixOn /\ obj[1].Type \in {T_string} \cup IntTypes)
        => FirstViolatedReported(obj[1])

\* C1 on the inputs that neither declare lenmax:0 nor are unsigned: there
\* the order of the checks is the claimed one.
C1_AwayFromZeroLenMaxAndUnsigned ==
    (Done /\ ~SuffixOn /\ obj[1].Type \in {T_string} \cup SignedTypes)
        => \A d \in DeclsOf(DeclaredTag(obj[1])) :
              (d.lenmax # SomeInt(0)) => Reported(1) = FirstViolated(obj[1], d)

\* The outcome of the bound checks alone for value n under declaration d.
BoundsOutcome(n, d) ==
    IF d.valmin.set /\ n < d.valmin.n THEN FailValMin
    ELSE IF d.valmax.set /\ n > d.valmax.n THEN FailValMax
    ELSE 0

\* C2 for the fields of the given types.
BoundsEnforcedAsDeclared(types) ==
    (Done /\ obj[1].Type \in types)
        => \A d \in DeclsOf(DeclaredTag(obj[1])) :
              (~d.req /\ (d.valmin.set \/ d.valmax.set))
                  => Reported(1) = BoundsOutcome(obj[1].n, d)

\* C2: for every integer value and every declaration of valmin and/or
\* valmax, a bound is enforced iff it was declared (0 included): the field
\* fails ValMin iff valmin is declared and v < a, else ValMax iff valmax is
\* declared and v > b, else passes.
C2_BoundsEnforcedAsDeclared == BoundsEnforcedAsDeclared(IntTypes)

\* C2 on the signed kinds.
C2_SignedBounds == BoundsEnforcedAsDeclared(SignedTypes)

\* C3 for the fields of the given types, evaluated with the naming rules
\* or without them.
ZeroOnlyWithoutBounds(types, withSuffix) ==
    (Done /\ obj[1].Type \in types /\ obj[1].n = 0 /\ (SuffixOn => withSuffix))
        => \A d \in DeclsOf(DeclaredTag(obj[1])) :
              d.req =>
                  /\ (Reported(1) = FailZero) <=> (~d.valmin.set /\ ~d.valmax.set)
                  /\ (d.valmin.set \/ d.valmax.set)
                        => Reported(1) = BoundsOutcome(0, d)

\* C3: a required integer field holding 0 fails with Zero iff its
\* declaration sets no valmin and no valmax; with any bound declared the
\* bound checks alone decide.  (Stated of the calls without the naming
\* rules, where the declaration is all that sets a bound.)
C3_ZeroOnlyWithoutBounds == ZeroOnlyWithoutBounds(IntTypes, FALSE)

\* C3 on the signed kinds, evaluated without the naming rules.
C3_SignedNoSuffix == ZeroOnlyWithoutBounds(SignedTypes, FALSE)

\* C3 on the signed kinds, the naming rules included: it fails where the
\* "Price" rule adds the implicit valmin:0 (C10).
C3_SignedAnyOptions == ZeroOnlyWithoutBounds(SignedTypes, TRUE)

\* C7: a string field declared lenmax:N and nothing else fails LenMax iff
\* its length is greater than N, for every N >= 0, N = 0 included.
C7_LenMaxEnforcedFromZero ==
    (Done /\ obj[1].Type = T_string /\ DeclaredRegexp(obj[1]) = <<>>
          /\ ~(SuffixOn /\ HasSuffix(obj[1].Name, s_Email)))
        => \A d \in DeclsOf(DeclaredTag(obj[1])) :
              (/\ d.lenmax.set /\ ~d.req /\ ~d.email
               /\ ~d.lenmin.set /\ ~d.regexp.set)
                  => Reported(1) = IF Len(obj[1].s) > d.lenmax.n THEN FailLenMax ELSE 0

\* C7 for N >= 1.
C7_PositiveLenMax ==
    (Done /\ obj[1].Type = T_string /\ DeclaredRegexp(obj[1]) = <<>>
          /\ ~(SuffixOn /\ HasSuffix(obj[1].Name, s_Email)))
        => \A d \in DeclsOf(DeclaredTag(obj[1])) :
              (/\ d.lenmax.set /\ d.lenmax.n >= 1 /\ ~d.req /\ ~d.email
               /\ ~d.lenmin.set /\ ~d.regexp.set)
                  => Reported(1) = IF Len(obj[1].s) > d.lenmax.n THEN FailLenMax ELSE 0

\* C8: a field of any integer kind, signed or unsigned, gets the outcome
\* its value and declaration give a field of kind int: the outcome does not
\* depend on the integer kind.
C8_IntegerKindIrrelevant ==
    (Done /\ obj[1].Type \in IntTypes)
        => Reported(1) = FieldStep([obj[1] EXCEPT !.Type = T_int], options).flags

\* C8 on the signed kinds.
C8_SignedKindsAgree ==
    (Done /\ obj[1].Type \in SignedTypes)
        => Reported(1) = FieldStep([obj[1] EXCEPT !.Type = T_int], options).flags

----------------------------------------------------------------------------
(* Inputs of whole calls: structs of several fields, with every option. *)

\* Structs have 1..MaxFields fields.
MaxFields == 2

\* A struct tag with entries under the default tag name and under "mytag".
TagOf4(tag, regexpTag, myTag, myRegexpTag) ==
    [k \in {s_validation, s_validation \o s_regexpSuffix,
            s_mytag, s_mytag \o s_regexpSuffix} |->
        IF k = s_validation THEN tag
        ELSE IF k = s_validation \o s_regexpSuffix THEN regexpTag
        ELSE IF k = s_mytag THEN myTag
        ELSE myRegexpTag]

t_reqLenmin2 == Join(<<s_req, Tok(s_lenmin, <<"2">>)>>)
t_lenmax1 == Tok(s_lenmax, <<"1">>)
t_reqValmin1 == Join(<<s_req, Tok(s_valmin, <<"1">>)>>)
t_valmax0 == Tok(s_valmax, <<"0">>)
t_valmax1 == Tok(s_valmax, <<"1">>)

CallFields ==
    {[Name |-> n_Name, Type |-> T_string,
      Tag |-> TagOf4(t_reqLenmin2, r, t_lenmax1, <<>>), s |-> s, n |-> 0] :
        r \in RegexpTags, s \in {<<>>, <<"a", "a">>, <<"@", "a">>}}
    \cup
    {[Name |-> n_Age, Type |-> T_int,
      Tag |-> TagOf4(t_reqValmin1, <<>>, t_valmax0, <<>>), s |-> <<>>, n |-> n] :
        n \in {0, 1}}
    \cup
    {[Name |-> n_Price, Type |-> T_int,
      Tag |-> TagOf4(<<>>, <<>>, <<>>, p_bad), s |-> <<>>, n |-> -1]}
    \cup
    {[Name |-> n_Flag, Type |-> T_bool,
      Tag |-> TagOf4(s_req, p_bad, s_req, <<>>), s |-> <<>>, n |-> 0]}

\* Structs: field names are distinct.
CallObjs ==
    {o \in UNION {[1..n -> CallFields] : n \in 1..MaxFields} :
        \A a, b \in 1..Len(o) : a # b => o[a].Name # o[b].Name}

Map1(k, x) == [i \in {k} |-> x]

Map2(k1, x1, k2, x2) == [i \in {k1, k2} |-> IF i = k1 THEN x1 ELSE x2]

RestrictChoices ==
    {EmptyMap, Map1(n_Name, TRUE), Map1(n_Age, TRUE), Map1(n_Name, FALSE),
     Map2(n_Name, TRUE, n_Age, FALSE)}

OverwriteTagChoices ==
    {EmptyMap,
     Map1(n_Name, EmptyMap),
     Map1(n_Name, Map1(s_validation, t_lenmax1)),
     Map1(n_Name, Map1(s_validation, <<>>)),
     Map1(n_Name, Map1(s_validation \o s_regexpSuffix, p_startA)),
     Map1(n_Name, Map2(s_validation, <<"x">>, s_validation \o s_regexpSuffix, p_bad)),
     Map1(n_Age, Map2(s_validation, t_valmax1, s_mytag, t_reqValmin1))}

OverwriteValueChoices ==
    {EmptyMap,
     Map1(n_Name, StringValue(<<"a">>)),
     Map1(n_Age, IntValue(T_int64, 2)),
     Map1(n_Age, StringValue(<<>>)),
     Map2(n_Name, IntValue(T_int, 0), n_Flag, StringValue(<<>>))}

CallOptions ==
    {NilOptions} \cup
    [isNil : {FALSE}, RestrictFields : RestrictChoices,
     OverwriteFieldTags : OverwriteTagChoices,
     OverwriteTagName : {<<>>, s_mytag}, ValidateWhenSuffix : BOOLEAN,
     OverwriteFieldValues : OverwriteValueChoices]

\* A call of Validate on a struct with options.
Init ==
    /\ obj \in CallObjs
    /\ options \in CallOptions
    /\ Entered

Spec == Init /\ [][Next]_vars

----------------------------------------------------------------------------
(* Claims about the naming rules (one field). *)

\* The field with a token added to its declaration.
WithToken(f, tok) ==
    [f EXCEPT !.Tag[s_validation] = IF @ = <<>> THEN tok ELSE @ \o <<" ">> \o tok]

SuffixOff(opts) == [opts EXCEPT !.ValidateWhenSuffix = FALSE]

\* C10: with ValidateWhenSuffix, an integer field named "...Price" that
\* declares no valmin and no valmax is evaluated as if it also declared
\* valmin:0; with a declared bound, or with the option off, its outcome is
\* the one without the naming rule.
C10_PriceImpliesValmin0 ==
    (Done /\ obj[1].Type \in IntTypes)
        => \A d \in DeclsOf(DeclaredTag(obj[1])) :
              Reported(1) =
                  IF /\ SuffixOn
                     /\ HasSuffix(obj[1].Name, s_Price)
                     /\ ~d.valmin.set
                     /\ ~d.valmax.set
                  THEN FieldStep(WithToken(obj[1], Tok(s_valmin, <<"0">>)),
                                 SuffixOff(options)).flags
                  ELSE FieldStep(obj[1], SuffixOff(options)).flags

\* The rule has acted: a required "Price" field with no bounds holds 0 and
\* passes, where without the rule it fails Zero.
C10_Witness ==
    /\ Done
    /\ SuffixOn
    /\ obj[1].Name = n_Price
    /\ obj[1].Type = T_int
    /\ DeclaredTag(obj[1]) = s_req
    /\ obj[1].n = 0
    /\ Reported(1) = 0
    /\ FieldStep(obj[1], SuffixOff(options)).flags = FailZero

----------------------------------------------------------------------------
(* Claims about whole calls. *)

Fields == 1..Len(obj)

\* Field i has been gone through: the loop is past it, or panicked at it.
Processed(i) == i < j \/ (pc = "panic" /\ i = j)

Panicked == <<"panic", 0>>

\* What the call shows of a processed field: a panic, or the failure code
\* reported for it (0 when it is not reported).
Outcome(i) == IF pc = "panic" /\ i = j THEN Panicked ELSE <<"reported", Reported(i)>>

\* The same of one pass of the loop body.
StepOutcome(r) == IF r.step = "panic" THEN Panicked ELSE <<"reported", r.flags>>

\* The names RestrictFields maps to true.
RestrictedNames ==
    IF options.isNil THEN {}
    ELSE {nm \in DOMAIN options.RestrictFields : options.RestrictFields[nm]}

Unrestricted(opts) == [opts EXCEPT !.RestrictFields = EmptyMap]

\* The result of a finished call is that of the call without restriction,
\* cut to the names in R.
ResultCutTo(R) ==
    /\ \A i \in Fields :
          Reported(i) = IF obj[i].Name \in R
                        THEN FieldStep(obj[i], Unrestricted(options)).flags
                        ELSE 0
    /\ DOMAIN invalidFields \subseteq R
    /\ valid <=> (DOMAIN invalidFields = {})

\* Every field of a validated kind has been evaluated, with the result of
\* the call without restriction.
AllEvaluated ==
    /\ \A i \in Fields :
          /\ Reported(i) = FieldStep(obj[i], Unrestricted(options)).flags
          /\ (obj[i].Type.Kind = "String" \/ obj[i].Type \in IntTypes)
                => obj[i].Name \in evaluated
    /\ valid <=> (DOMAIN invalidFields = {})

\* C4 as stated: with a non-empty set R of names mapped to true, the
\* result is the unrestricted result cut to R; with an empty or absent set
\* every candidate field is evaluated.
C4_RestrictionBySetOfTrueNames ==
    Done => IF RestrictedNames # {} THEN ResultCutTo(RestrictedNames)
            ELSE AllEvaluated

\* C4 amended: when RestrictFields has at least one entry (mapped to true
\* or to false), the result is the unrestricted result cut to the names
\* mapped to true, so a map with only false entries evaluates no field;
\* when RestrictFields is empty or absent every candidate field is
\* evaluated.
C4_RestrictionByMap ==
    Done => IF ~options.isNil /\ DOMAIN options.RestrictFields # {}
            THEN ResultCutTo(RestrictedNames)
            ELSE AllEvaluated

\* A restricted call has left out a field that fails without restriction.
C4_Witness ==
    /\ Done
    /\ RestrictedNames # {}
    /\ ~valid
    /\ \E i \in Fields :
          /\ obj[i].Name \notin RestrictedNames
          /\ FieldStep(obj[i], Unrestricted(options)).flags # 0
          /\ obj[i].Name \notin DOMAIN invalidFields

\* The OverwriteFieldTags entry of a field under a key; "" when absent.
OverwriteEntry(f, key) ==
    IF options.isNil THEN <<>>
    ELSE MapGet(MapGet(options.OverwriteFieldTags, f.Name, EmptyMap), key, <<>>)

\* The string parsed for a field under a key: the entry when non-empty,
\* the declared tag otherwise.
Chosen(f, key) ==
    IF OverwriteEntry(f, key) # <<>> THEN OverwriteEntry(f, key)
    ELSE MapGet(f.Tag, key, <<>>)

\* The field declared with the chosen strings.
DeclaredAsChosen(f) ==
    LET key == TagName(options)
        rkey == key \o s_regexpSuffix
    IN  [f EXCEPT !.Tag = [k \in {key, rkey} |->
                              IF k = key THEN Chosen(f, key) ELSE Chosen(f, rkey)]]

NoTagOverwrites(opts) == [opts EXCEPT !.OverwriteFieldTags = EmptyMap]

\* C5: the declaration and the regexp string of a field are, each on its
\* own, the OverwriteFieldTags entry under the effective key when that entry
\* is non-empty and the declared tag otherwise; the field's outcome is that
\* of the same value under a field declared with the chosen strings.
C5_TagsOverwrittenIndependently ==
    \A i \in Fields :
        Processed(i)
            => Outcome(i) = StepOutcome(FieldStep(DeclaredAsChosen(obj[i]),
                                                  NoTagOverwrites(options)))

\* Only the regexp string of an evaluated field is overwritten, and the
\* declared declaration still decides: the overwrite changed the outcome.
C5_Witness ==
    /\ Done
    /\ \E i \in Fields :
          /\ obj[i].Name \in evaluated
          /\ OverwriteEntry(obj[i], TagName(options)) = <<>>
          /\ OverwriteEntry(obj[i], TagName(options) \o s_regexpSuffix) # <<>>
          /\ Reported(i) = FailRegexp
          /\ FieldStep(obj[i], NoTagOverwrites(options)).flags # FailRegexp

\* Field i is validated: of a string or integer kind, and not left out by
\* RestrictFields.
Candidate(i) ==
    /\ obj[i].Type.Kind = "String" \/ obj[i].Type \in IntTypes
    /\ \/ options.isNil
       \/ DOMAIN options.RestrictFields = {}
       \/ obj[i].Name \in RestrictedNames

\* The struct holding the substitute value in the field.
HoldingSubstitute(f) ==
    IF ~options.isNil /\ f.Name \in DOMAIN options.OverwriteFieldValues
    THEN LET sub == options.OverwriteFieldValues[f.Name]
         IN  [f EXCEPT !.Type = sub.Type, !.s = sub.s, !.n = sub.n]
    ELSE f

NoValueOverwrites(opts) == [opts EXCEPT !.OverwriteFieldValues = EmptyMap]

\* Every validated field is evaluated, and its outcome is that of a struct
\* holding the substitute (of the substitute's own type) in a field named
\* in OverwriteFieldValues, and the stored value in the others.
SubstituteEvaluated ==
    \A i \in Fields :
        (Processed(i) /\ Outcome(i) # Panicked /\ Candidate(i))
            => /\ obj[i].Name \in evaluated
               /\ Reported(i) = FieldStep(HoldingSubstitute(obj[i]),
                                          NoValueOverwrites(options)).flags

HasBadPatternToken(tag) ==
    LET toks == SplitN(tag, " ")
    IN  \E k \in 1..Len(toks) :
            /\ HasPrefix(toks[k], Append(s_regexp, ":"))
            /\ CompilePanics(ReplacePrefix(toks[k], Append(s_regexp, ":")))

\* The effective declaration or regexp string of field i is malformed.
Malformed(i) ==
    \/ HasBadPatternToken(Chosen(obj[i], TagName(options)))
    \/ CompilePanics(Chosen(obj[i], TagName(options) \o s_regexpSuffix))

NamesOf(S) == {obj[i].Name : i \in S}

\* What C9 says of a state of the call.
PanicOrComplete ==
    /\ pc = "panic" =>
          /\ Candidate(j)
          /\ Malformed(j)
          /\ evaluated = NamesOf({i \in 1..(j - 1) : Candidate(i)})
    /\ pc = "done" =>
          /\ \A i \in Fields : Candidate(i) => ~Malformed(i)
          /\ evaluated = NamesOf({i \in Fields : Candidate(i)})
    /\ pc = "loop" =>
          /\ j <= Len(obj) + 1
          /\ \A i \in 1..(j - 1) : Candidate(i) => ~Malformed(i)
          /\ evaluated = NamesOf({i \in 1..(j - 1) : Candidate(i)})
    /\ DOMAIN invalidFields \subseteq evaluated

====
